---- MODULE Spec2Model ----
(***************************************************************************)
(* SanamLuang: the rule store (SanamLuangConfig), its JSON persistence and *)
(* the correction engine (GlobalPlugin._process_text_hook and              *)
(* GlobalPlugin._apply_corrections) of globalPlugins/SanamLuang.           *)
(*                                                                         *)
(* A Python str is a sequence of one-character strings; a Thai character   *)
(* is written by the name of its code point ("U0E33").  A rule is the dict *)
(* the program keeps: a record with the fields value, is_regex and, unless *)
(* the loaded file left it out, replacement.                               *)
(*                                                                         *)
(* Spec runs the methods one whole call at a time; SpecThreads runs        *)
(* add_entry statement by statement in two threads.                        *)
(***************************************************************************)
EXTENDS Integers, Sequences, FiniteSets, TLC

VARIABLES entries, enabled, configFile, dictFile, saveFailures, call, result

vars == <<entries, enabled, configFile, dictFile, saveFailures, call, result>>

(***************************************************************************)
(* Bounds of the model.                                                    *)
(***************************************************************************)
\* add_entry is only offered while the rule list is shorter than this.
MaxEntries == 3
\* how many times the write of the user config file may fail in one run.
MaxSaveFailures == 1
\* how many times the main gesture is activated in one run.
MaxTaps == 3
\* how many clock ticks pass in one run of the gesture.
MaxTicks == 5

(***************************************************************************)
(* Characters and strings.                                                 *)
(***************************************************************************)
\* ord(c) for the characters the model uses.
Ord(c) ==
    CASE c = "(" -> 40
      [] c = "." -> 46
      [] c = "1" -> 49
      [] c = "9" -> 57
      [] c = "B" -> 66
      [] c = "X" -> 88
      [] c = "Y" -> 89
      [] c = "Z" -> 90
      [] c = "\\" -> 92
      [] c = "a" -> 97
      [] c = "b" -> 98
      [] c = "c" -> 99
      [] c = "x" -> 120
      [] c = "y" -> 121
      [] c = "z" -> 122
      [] c = "{" -> 123
      [] c = "}" -> 125
      [] c = "U0E01" -> 3585
      [] c = "U0E32" -> 3634
      [] c = "U0E33" -> 3635
      [] c = "U0E40" -> 3648
      [] c = "U0E41" -> 3649
      [] c = "U0E48" -> 3656
      [] c = "U0E49" -> 3657
      [] c = "U0E4D" -> 3661
      [] c = "UD800" -> 55296

\* str.lower() on one character: the upper-case Latin letters change, the
\* Thai characters and the punctuation have no case.
LowerChar(c) ==
    CASE c = "B" -> "b"
      [] c = "X" -> "x"
      [] c = "Y" -> "y"
      [] c = "Z" -> "z"
      [] OTHER -> c

\* x[WORD_VALUE].lower()
Lower(s) == [i \in 1..Len(s) |-> LowerChar(s[i])]

\* Python's s < t on str: code points compared left to right, a proper
\* prefix is the smaller one.
RECURSIVE StrLess(_, _)
StrLess(s, t) ==
    IF t = <<>> THEN FALSE
    ELSE IF s = <<>> THEN TRUE
    ELSE IF Ord(Head(s)) # Ord(Head(t)) THEN Ord(Head(s)) < Ord(Head(t))
    ELSE StrLess(Tail(s), Tail(t))

\* s[i:] of a sequence (i counted from 1).
Drop(s, n) == SubSeq(s, n + 1, Len(s))

\* s.startswith(p)
StartsWith(s, p) == Len(p) <= Len(s) /\ SubSeq(s, 1, Len(p)) = p

(***************************************************************************)
(* Rules.                                                                  *)
(***************************************************************************)
WORD_VALUE == "value"
WORD_IS_REGEX == "is_regex"
WORD_REPLACEMENT == "replacement"

\* {WORD_VALUE: pattern, WORD_IS_REGEX: is_regex, WORD_REPLACEMENT: replacement}
NewEntry(pattern, is_regex, replacement) ==
    [value |-> pattern, is_regex |-> is_regex, replacement |-> replacement]

\* entry.get(WORD_REPLACEMENT, "")
GetReplacement(entry) ==
    IF WORD_REPLACEMENT \in DOMAIN entry THEN entry.replacement ELSE <<>>

\* The built-in fallback dictionary: six Thai vowel-sign corrections.
BuiltinDefaults ==
    << NewEntry(<<"U0E33", "U0E48">>, FALSE, <<"U0E48", "U0E33">>),
       NewEntry(<<"U0E33", "U0E49">>, FALSE, <<"U0E49", "U0E33">>),
       NewEntry(<<"U0E40", "U0E40">>, FALSE, <<"U0E41">>),
       NewEntry(<<"U0E4D", "U0E32">>, FALSE, <<"U0E33">>),
       NewEntry(<<"U0E4D", "U0E48", "U0E32">>, FALSE, <<"U0E48", "U0E33">>),
       NewEntry(<<"U0E4D", "U0E49", "U0E32">>, FALSE, <<"U0E49", "U0E33">>) >>

\* d[WORD_VALUE] == pattern and d[WORD_IS_REGEX] == is_regex
SameKey(d, pattern, is_regex) == d.value = pattern /\ d.is_regex = is_regex

\* any(d[WORD_VALUE] == pattern and d[WORD_IS_REGEX] == is_regex for d in self.entries)
KeyExists(es, pattern, is_regex) ==
    \E i \in 1..Len(es) : SameKey(es[i], pattern, is_regex)

\* list.sort(key=lambda x: x[WORD_VALUE].lower()): a stable sort; each rule
\* goes behind the rules whose key is not greater than its own.
RECURSIVE InsertByKey(_, _)
InsertByKey(sorted, e) ==
    IF sorted = <<>> THEN <<e>>
    ELSE IF StrLess(Lower(e.value), Lower(Head(sorted).value))
         THEN <<e>> \o sorted
         ELSE <<Head(sorted)>> \o InsertByKey(Tail(sorted), e)

RECURSIVE SortFrom(_, _)
SortFrom(sorted, rest) ==
    IF rest = <<>> THEN sorted
    ELSE SortFrom(InsertByKey(sorted, Head(rest)), Tail(rest))

SortEntries(es) == SortFrom(<<>>, es)

(***************************************************************************)
(* Files.  A file is absent, unparseable, or holds a JSON value.  A JSON   *)
(* value carries the type isinstance() tests: "dict", "list", "str" or     *)
(* "other".  The object of the user config file and its rules are records  *)
(* (their keys are fixed words); an object of the bundled dictionary is    *)
(* the sequence of its <<key, value>> pairs in file order, the key a str.  *)
(***************************************************************************)
Absent == [kind |-> "absent"]
Corrupt == [kind |-> "corrupt"]
Json(data) == [kind |-> "json", data |-> data]
JDict(v) == [t |-> "dict", v |-> v]
JList(v) == [t |-> "list", v |-> v]
JStr(v) == [t |-> "str", v |-> v]
JOther == [t |-> "other"]

\* the keys "value", "is_regex" and "replacement" of a dictionary item
KeyValue == <<"v", "a", "l", "u", "e">>
KeyIsRegex == <<"i", "s", "_", "r", "e", "g", "e", "x">>
KeyReplacement == <<"r", "e", "p", "l", "a", "c", "e", "m", "e", "n", "t">>

\* key in item
HasKey(item, key) == \E i \in 1..Len(item) : item[i][1] = key

\* item[key]
GetKey(item, key) == item[CHOOSE i \in 1..Len(item) : item[i][1] = key][2]

\* One item of the bundled dictionary, normalised to the rules it yields.
RECURSIVE PairsToEntries(_)
PairsToEntries(pairs) ==
    IF pairs = <<>> THEN <<>>
    ELSE LET key == Head(pairs)[1]
             value == Head(pairs)[2]
             replacement ==
                 IF value.t = "list" /\ Len(value.v) > 0 /\ value.v[1].t = "list"
                 THEN IF value.v[1].v # <<>> THEN value.v[1].v[1].v ELSE <<>>
                 ELSE IF value.t = "str" THEN value.v ELSE <<>>
         IN  <<NewEntry(key, FALSE, replacement)>> \o PairsToEntries(Tail(pairs))

ItemToEntries(item) ==
    IF item.t = "dict"
    THEN IF HasKey(item.v, KeyValue) /\ HasKey(item.v, KeyIsRegex)
         THEN <<NewEntry(GetKey(item.v, KeyValue).v,
                         GetKey(item.v, KeyIsRegex).v,
                         IF HasKey(item.v, KeyReplacement)
                         THEN GetKey(item.v, KeyReplacement).v ELSE <<>>)>>
         ELSE PairsToEntries(item.v)
    ELSE IF item.t = "str" THEN <<NewEntry(item.v, FALSE, <<>>)>>
    ELSE <<>>

RECURSIVE ItemsToEntries(_)
ItemsToEntries(items) ==
    IF items = <<>> THEN <<>>
    ELSE ItemToEntries(Head(items)) \o ItemsToEntries(Tail(items))

\* SanamLuangConfig._load_default_dictionary
LoadDefaultDictionary(df) ==
    IF df.kind = "absent" THEN BuiltinDefaults
    ELSE IF df.kind = "corrupt" THEN BuiltinDefaults
    ELSE IF df.data.t = "list" THEN ItemsToEntries(df.data.v)
    ELSE <<>>

\* What _save_config writes when the write succeeds.
DumpConfig(es, en) ==
    Json(JDict([entries |-> es, enabled |-> en, version |-> "1.1"]))

\* str.encode("utf-8") accepts the string: it has no surrogate code point.
\* json.load takes a lone surrogate from the escape "\ud800"; json.dump with
\* ensure_ascii=False hands it to the file as it is, and the file's encoder
\* raises UnicodeEncodeError.
Utf8Encodable(s) == \A i \in 1..Len(s) : Ord(s[i]) \notin 55296..57343

\* every string of the rule list can be written to the file
EntriesEncodable(es) ==
    \A i \in 1..Len(es) :
        Utf8Encodable(es[i].value) /\ Utf8Encodable(GetReplacement(es[i]))

\* The outcomes of _save_config: the file is written; open() fails and the
\* file stays as it was; the write fails after open() truncated the file,
\* for an I/O error or because a string of the rules cannot be encoded.
SaveOutcomes(failures, es) ==
    (IF EntriesEncodable(es) THEN {"ok"} ELSE {"encode_fails"})
        \cup (IF failures < MaxSaveFailures THEN {"open_fails", "write_fails"} ELSE {})

\* The user config file after _save_config with this outcome.
SavedFile(cf, es, en, outcome) ==
    CASE outcome = "ok" -> DumpConfig(es, en)
      [] outcome = "open_fails" -> cf
      [] outcome = "write_fails" -> Corrupt
      [] outcome = "encode_fails" -> Corrupt

\* a faulty _save_config: it reports success whatever happened
SaveAlwaysTrue(outcome) == TRUE

\* The value _save_config returns.
SaveReturns(outcome) == outcome = "ok"

\* how many times the write has failed for an I/O error
SaveFailuresAfter(failures, outcome) ==
    IF outcome \in {"open_fails", "write_fails"} THEN failures + 1 ELSE failures

\* SanamLuangConfig._load_config: the entries, the enabled flag and whether
\* the method saves.
LoadConfig(cf, df) ==
    IF cf.kind = "absent"
    THEN [entries |-> LoadDefaultDictionary(df), enabled |-> TRUE, saves |-> TRUE]
    ELSE IF cf.kind = "corrupt"
    THEN [entries |-> LoadDefaultDictionary(df), enabled |-> TRUE, saves |-> FALSE]
    ELSE IF cf.data.t = "dict"
    THEN [entries |-> IF "entries" \in DOMAIN cf.data.v THEN cf.data.v.entries ELSE <<>>,
          enabled |-> IF "enabled" \in DOMAIN cf.data.v THEN cf.data.v.enabled ELSE TRUE,
          saves |-> FALSE]
    ELSE [entries |-> IF cf.data.t = "list" THEN cf.data.v ELSE <<>>,
          enabled |-> TRUE,
          saves |-> FALSE]

(***************************************************************************)
(* The library calls of the engine: str.replace, sorted and re.sub.        *)
(***************************************************************************)
\* text.replace(old, new): every non-overlapping occurrence, left to right.
\* With an empty old, new goes before every character and at the end.
RECURSIVE StrReplace(_, _, _)
StrReplace(text, old, new) ==
    IF old = <<>>
    THEN IF text = <<>> THEN new
         ELSE new \o <<Head(text)>> \o StrReplace(Tail(text), old, new)
    ELSE IF text = <<>> THEN <<>>
    ELSE IF StartsWith(text, old)
         THEN new \o StrReplace(Drop(text, Len(old)), old, new)
         ELSE <<Head(text)>> \o StrReplace(Tail(text), old, new)

\* a faulty literal pass: the pairs are taken in rule-list order
LiteralsInListOrder(pairs) == pairs

\* sorted(pairs, key=lambda x: len(x[0]), reverse=True): stable, so pairs of
\* equal pattern length keep the order they came in.
RECURSIVE InsertByLen(_, _)
InsertByLen(sorted, e) ==
    IF sorted = <<>> THEN <<e>>
    ELSE IF Len(Head(sorted)[1]) < Len(e[1])
         THEN <<e>> \o sorted
         ELSE <<Head(sorted)>> \o InsertByLen(Tail(sorted), e)

RECURSIVE SortByLenFrom(_, _)
SortByLenFrom(sorted, rest) ==
    IF rest = <<>> THEN sorted
    ELSE SortByLenFrom(InsertByLen(sorted, Head(rest)), Tail(rest))

SortedByLenDesc(pairs) == SortByLenFrom(<<>>, pairs)

(***************************************************************************)
(* re.sub for the patterns of the model: ordinary characters, ".", a       *)
(* repeat "{n}" and an opening "(" that is never closed; and for the       *)
(* templates of the model: ordinary characters and backslash escapes.      *)
(***************************************************************************)
Digits == {"0", "1", "2", "3", "4", "5", "6", "7", "8", "9"}

DigitValue(c) ==
    CASE c = "0" -> 0 [] c = "1" -> 1 [] c = "2" -> 2 [] c = "3" -> 3
      [] c = "4" -> 4 [] c = "5" -> 5 [] c = "6" -> 6 [] c = "7" -> 7
      [] c = "8" -> 8 [] c = "9" -> 9

\* the digits a string starts with
RECURSIVE TakeDigits(_)
TakeDigits(s) ==
    IF s # <<>> /\ Head(s) \in Digits
    THEN <<Head(s)>> \o TakeDigits(Tail(s))
    ELSE <<>>

RECURSIVE StripZeros(_)
StripZeros(ds) ==
    IF ds # <<>> /\ Head(ds) = "0" THEN StripZeros(Tail(ds)) ELSE ds

\* MAXREPEAT of the re module, 4294967295, as its digits.
MaxRepeatDigits == <<"4", "2", "9", "4", "9", "6", "7", "2", "9", "5">>

\* ds < es for two digit strings of the same length
RECURSIVE DigitsLess(_, _)
DigitsLess(ds, es) ==
    IF ds = <<>> THEN FALSE
    ELSE IF DigitValue(Head(ds)) # DigitValue(Head(es))
         THEN DigitValue(Head(ds)) < DigitValue(Head(es))
         ELSE DigitsLess(Tail(ds), Tail(es))

\* int(lo) >= MAXREPEAT
RepeatTooLarge(lo) ==
    LET ds == StripZeros(lo)
    IN  \/ Len(ds) > Len(MaxRepeatDigits)
        \/ Len(ds) = Len(MaxRepeatDigits) /\ ~DigitsLess(ds, MaxRepeatDigits)

\* int(lo)
RECURSIVE IntOfDigits(_, _)
IntOfDigits(ds, acc) ==
    IF ds = <<>> THEN acc
    ELSE IntOfDigits(Tail(ds), 10 * acc + DigitValue(Head(ds)))

RECURSIVE RepeatAtoms(_, _)
RepeatAtoms(atoms, n) ==
    IF n = 0 THEN <<>> ELSE atoms \o RepeatAtoms(atoms, n - 1)

\* The parser of re.compile, left to right.  done: the atoms of the items
\* before the last one; has, last, rep: whether there is a last item, its
\* atoms, and whether it is a repeat.  An atom matches one character.
RECURSIVE ParseRegex(_, _, _, _, _)
ParseRegex(p, done, has, last, rep) ==
    IF p = <<>> THEN [status |-> "ok", atoms |-> done \o last]
    ELSE LET c == Head(p)
             rest == Tail(p)
             lo == TakeDigits(rest)
             after == Drop(rest, Len(lo))
         IN  IF c = "("
             THEN LET sub == ParseRegex(rest, <<>>, FALSE, <<>>, FALSE)
                  IN  IF sub.status # "ok" THEN sub ELSE [status |-> "re.error"]
             ELSE IF c = "{" /\ lo # <<>> /\ after # <<>> /\ Head(after) = "}"
             THEN IF RepeatTooLarge(lo) THEN [status |-> "OverflowError"]
                  ELSE IF ~has THEN [status |-> "re.error"]
                  ELSE IF rep THEN [status |-> "re.error"]
                  ELSE ParseRegex(Tail(after), done, TRUE,
                                  RepeatAtoms(last, IntOfDigits(lo, 0)), TRUE)
             ELSE ParseRegex(rest, done \o last, TRUE,
                             <<[any |-> c = ".", ch |-> c]>>, FALSE)

\* re.compile(pattern)
CompileRegex(pattern) == ParseRegex(pattern, <<>>, FALSE, <<>>, FALSE)

\* The template of re.sub: a backslash before a digit is a group reference
\* (the patterns of the model have no group, so it is an error), before an
\* ASCII letter an escape (\a and \b are characters, the other letters of
\* the model an error), a backslash at the end an error.
RECURSIVE ParseTemplate(_)
ParseTemplate(repl) ==
    IF repl = <<>> THEN [status |-> "ok", text |-> <<>>]
    ELSE IF Head(repl) # "\\"
    THEN LET t == ParseTemplate(Tail(repl))
         IN  IF t.status = "ok"
             THEN [status |-> "ok", text |-> <<Head(repl)>> \o t.text] ELSE t
    ELSE IF Tail(repl) = <<>> THEN [status |-> "re.error"]
    ELSE LET c == Head(Tail(repl))
             t == ParseTemplate(Tail(Tail(repl)))
             lit == CASE c = "\\" -> <<"\\">>
                      [] c = "a" -> <<"U0007">>
                      [] c = "b" -> <<"U0008">>
                      [] OTHER -> <<"\\", c>>
         IN  IF c \in Digits \/ c \in {"c", "x", "y", "z", "B", "X", "Y", "Z"}
             THEN [status |-> "re.error"]
             ELSE IF t.status = "ok"
                  THEN [status |-> "ok", text |-> lit \o t.text] ELSE t

\* the compiled pattern matches at the start of text
MatchAt(text, atoms) ==
    /\ Len(atoms) <= Len(text)
    /\ \A i \in 1..Len(atoms) : atoms[i].any \/ atoms[i].ch = text[i]

\* every non-overlapping match replaced, left to right; a pattern that
\* matches the empty string matches before every character and at the end
RECURSIVE SubAll(_, _, _)
SubAll(atoms, new, text) ==
    IF atoms = <<>>
    THEN IF text = <<>> THEN new
         ELSE new \o <<Head(text)>> \o SubAll(atoms, new, Tail(text))
    ELSE IF text = <<>> THEN <<>>
    ELSE IF MatchAt(text, atoms)
         THEN new \o SubAll(atoms, new, Drop(text, Len(atoms)))
         ELSE <<Head(text)>> \o SubAll(atoms, new, Tail(text))

\* re.sub(pattern, replacement, text): the text, or the exception raised.
ReSub(pattern, replacement, text) ==
    LET compiled == CompileRegex(pattern)
        template == ParseTemplate(replacement)
    IN  IF compiled.status # "ok" THEN [status |-> compiled.status]
        ELSE IF template.status # "ok" THEN [status |-> template.status]
        ELSE [status |-> "ok", text |-> SubAll(compiled.atoms, template.text, text)]

(***************************************************************************)
(* The engine.  Its result is the text, or the exception that leaves it.   *)
(***************************************************************************)
Returned(text) == [raised |-> FALSE, text |-> text]
Raised(exception) == [raised |-> TRUE, exception |-> exception]

\* GlobalPlugin._process_text_hook, the first loop: the (pattern, replacement)
\* pairs of the rules with a non-empty pattern and this is_regex.
RECURSIVE HookPairs(_, _)
HookPairs(es, is_regex) ==
    IF es = <<>> THEN <<>>
    ELSE LET entry == Head(es)
         IN  (IF entry.value # <<>> /\ entry.is_regex = is_regex
              THEN <<<<entry.value, GetReplacement(entry)>>>> ELSE <<>>)
             \o HookPairs(Tail(es), is_regex)

\* the loop over literal_entries_sorted
RECURSIVE HookLiteralPass(_, _)
HookLiteralPass(pairs, text) ==
    IF pairs = <<>> THEN text
    ELSE HookLiteralPass(Tail(pairs), StrReplace(text, Head(pairs)[1], Head(pairs)[2]))

\* a faulty regex loop of the live path: the first pattern that raises
\* re.error ends the loop
RECURSIVE HookRegexPassEndingAtError(_, _)
HookRegexPassEndingAtError(pairs, text) ==
    IF pairs = <<>> THEN Returned(text)
    ELSE LET r == ReSub(Head(pairs)[1], Head(pairs)[2], text)
         IN  IF r.status = "ok" THEN HookRegexPassEndingAtError(Tail(pairs), r.text)
             ELSE IF r.status = "re.error" THEN Returned(text)
             ELSE Raised(r.status)

\* the loop over regex_patterns: re.error is caught, nothing else is
RECURSIVE HookRegexPass(_, _)
HookRegexPass(pairs, text) ==
    IF pairs = <<>> THEN Returned(text)
    ELSE LET r == ReSub(Head(pairs)[1], Head(pairs)[2], text)
         IN  IF r.status = "ok" THEN HookRegexPass(Tail(pairs), r.text)
             ELSE IF r.status = "re.error" THEN HookRegexPass(Tail(pairs), text)
             ELSE Raised(r.status)

\* a faulty live path with hidden state: right after a manual correction it
\* hands on the text of that correction again
HookRepeatingLastCorrection(en, es, text) ==
    IF call.op = "_apply_corrections" /\ ~result.raised THEN Returned(result.text)
    ELSE IF ~en THEN Returned(text)
    ELSE IF es = <<>> THEN Returned(text)
    ELSE HookRegexPass(HookPairs(es, TRUE),
                       HookLiteralPass(SortedByLenDesc(HookPairs(es, FALSE)), text))

\* GlobalPlugin._process_text_hook: the text handed to the original
\* processText.
ProcessTextHook(en, es, text) ==
    IF ~en THEN Returned(text)
    ELSE IF es = <<>> THEN Returned(text)
    ELSE HookRegexPass(HookPairs(es, TRUE),
                       HookLiteralPass(SortedByLenDesc(HookPairs(es, FALSE)), text))

\* GlobalPlugin._apply_corrections, the first loop
RECURSIVE ApplyPairs(_, _)
ApplyPairs(es, is_regex) ==
    IF es = <<>> THEN <<>>
    ELSE LET entry == Head(es)
         IN  (IF entry.value # <<>> /\ entry.is_regex = is_regex
              THEN <<<<entry.value, GetReplacement(entry)>>>> ELSE <<>>)
             \o ApplyPairs(Tail(es), is_regex)

\* the loop over literal_entries_sorted
RECURSIVE ApplyLiteralPass(_, _)
ApplyLiteralPass(pairs, corrected_text) ==
    IF pairs = <<>> THEN corrected_text
    ELSE ApplyLiteralPass(Tail(pairs),
                          StrReplace(corrected_text, Head(pairs)[1], Head(pairs)[2]))

\* the loop over regex_patterns
RECURSIVE ApplyRegexPass(_, _)
ApplyRegexPass(pairs, corrected_text) ==
    IF pairs = <<>> THEN Returned(corrected_text)
    ELSE LET r == ReSub(Head(pairs)[1], Head(pairs)[2], corrected_text)
         IN  IF r.status = "ok" THEN ApplyRegexPass(Tail(pairs), r.text)
             ELSE IF r.status = "re.error" THEN ApplyRegexPass(Tail(pairs), corrected_text)
             ELSE Raised(r.status)

\* a faulty manual path: it honours the enabled flag like the live path
ApplyCorrectionsWhenEnabled(es, text) ==
    IF enabled /\ es # <<>>
    THEN ApplyRegexPass(ApplyPairs(es, TRUE),
                        ApplyLiteralPass(SortedByLenDesc(ApplyPairs(es, FALSE)), text))
    ELSE Returned(text)

\* a faulty manual path: the regex pass runs before the literal pass
ApplyRegexBeforeLiterals(es, text) ==
    LET r == ApplyRegexPass(ApplyPairs(es, TRUE), text)
    IN  IF r.raised THEN r
        ELSE Returned(ApplyLiteralPass(SortedByLenDesc(ApplyPairs(es, FALSE)), r.text))

\* GlobalPlugin._apply_corrections
ApplyCorrections(es, text) ==
    IF es # <<>>
    THEN ApplyRegexPass(ApplyPairs(es, TRUE),
                        ApplyLiteralPass(SortedByLenDesc(ApplyPairs(es, FALSE)), text))
    ELSE Returned(text)

(***************************************************************************)
(* The rule store: what each method of SanamLuangConfig does to the rule   *)
(* list, and whether it goes on to _save_config.                           *)
(***************************************************************************)
\* the first index whose rule has this key, 0 when there is none
IndexOfKey(es, pattern, is_regex) ==
    IF KeyExists(es, pattern, is_regex)
    THEN CHOOSE i \in 1..Len(es) :
             /\ SameKey(es[i], pattern, is_regex)
             /\ \A j \in 1..(i - 1) : ~SameKey(es[j], pattern, is_regex)
    ELSE 0

\* the first index whose rule equals entry (dict equality), 0 when none
IndexOfEntry(es, entry) ==
    IF \E i \in 1..Len(es) : es[i] = entry
    THEN CHOOSE i \in 1..Len(es) :
             /\ es[i] = entry
             /\ \A j \in 1..(i - 1) : es[j] # entry
    ELSE 0

\* self.entries.pop(index)
Pop(es, index) == SubSeq(es, 1, index - 1) \o SubSeq(es, index + 1, Len(es))

\* any(d[WORD_VALUE] == new_pattern and d[WORD_IS_REGEX] == new_is_regex and i != index ...)
Collides(es, index, new_pattern, new_is_regex) ==
    \E i \in 1..Len(es) : SameKey(es[i], new_pattern, new_is_regex) /\ i # index

\* a faulty add_entry: it looks for an equal rule, not for an equal key
AddEntryComparingRules(es, pattern, is_regex, replacement) ==
    IF \A i \in 1..Len(es) : es[i] # NewEntry(pattern, is_regex, replacement)
    THEN [entries |-> SortEntries(Append(es, NewEntry(pattern, is_regex, replacement))),
          saves |-> TRUE]
    ELSE [entries |-> es, saves |-> FALSE]

\* SanamLuangConfig.add_entry
AddEntry(es, pattern, is_regex, replacement) ==
    IF ~KeyExists(es, pattern, is_regex)
    THEN [entries |-> SortEntries(Append(es, NewEntry(pattern, is_regex, replacement))),
          saves |-> TRUE]
    ELSE [entries |-> es, saves |-> FALSE]

\* a faulty update_entry: it refuses a new key that another rule holds
UpdateEntryRefusingCollision(es, old_entry, new_pattern, new_is_regex, new_replacement) ==
    LET index == IndexOfKey(es, old_entry.value, old_entry.is_regex)
    IN  IF index # 0 /\ ~Collides(es, index, new_pattern, new_is_regex)
        THEN [entries |->
                  SortEntries([es EXCEPT ![index] =
                                   NewEntry(new_pattern, new_is_regex, new_replacement)]),
              saves |-> TRUE]
        ELSE [entries |-> es, saves |-> FALSE]

\* SanamLuangConfig.update_entry
UpdateEntry(es, old_entry, new_pattern, new_is_regex, new_replacement) ==
    LET index == IndexOfKey(es, old_entry.value, old_entry.is_regex)
    IN  IF index # 0
        THEN [entries |->
                  SortEntries(
                      IF Collides(es, index, new_pattern, new_is_regex)
                      THEN Pop(es, index)
                      ELSE [es EXCEPT ![index] =
                                NewEntry(new_pattern, new_is_regex, new_replacement)]),
              saves |-> TRUE]
        ELSE [entries |-> es, saves |-> FALSE]

\* a faulty remove_entry: it removes the first rule with the key of entry
RemoveEntryByKey(es, entry) ==
    LET index == IndexOfKey(es, entry.value, entry.is_regex)
    IN  IF index # 0
        THEN [entries |-> Pop(es, index), saves |-> TRUE]
        ELSE [entries |-> es, saves |-> FALSE]

\* SanamLuangConfig.remove_entry
RemoveEntry(es, entry) ==
    LET index == IndexOfEntry(es, entry)
    IN  IF index # 0
        THEN [entries |-> Pop(es, index), saves |-> TRUE]
        ELSE [entries |-> es, saves |-> FALSE]

\* a faulty reset_to_defaults: it fills an empty rule list only, the rules
\* of the user survive
ResetOnlyWhenEmpty(df) ==
    [entries |-> IF entries = <<>> THEN LoadDefaultDictionary(df) ELSE entries,
     saves |-> TRUE]

\* SanamLuangConfig.reset_to_defaults
ResetToDefaults(df) == [entries |-> LoadDefaultDictionary(df), saves |-> TRUE]

(***************************************************************************)
(* The inputs of the model.                                                *)
(***************************************************************************)
AB == <<"a", "b">>
ABC == <<"a", "b", "c">>
HugeRepeat == <<"a", "{", "9", "9", "9", "9", "9", "9", "9", "9", "9", "9", "9", "}">>

\* the rules the user adds, edits and removes
UserRules ==
    { NewEntry(AB, FALSE, <<"X">>),
      NewEntry(AB, FALSE, <<>>),
      NewEntry(ABC, FALSE, <<"Y">>),
      NewEntry(AB, TRUE, <<"Z">>) }

\* the texts handed to the engine
Texts ==
    { ABC,
      <<"U0E40", "U0E40", "U0E01">> }

\* the user config file found at start-up
ConfigFiles ==
    { Absent,
      Corrupt,
      Json(JDict([version |-> "1.0"])),
      Json(JList(<<NewEntry(ABC, FALSE, <<"Y">>), NewEntry(AB, FALSE, <<"X">>)>>)),
      Json(JDict([entries |-> <<NewEntry(<<".", "c">>, TRUE, <<"B">>),
                               NewEntry(<<"(">>, TRUE, <<"X">>),
                               NewEntry(AB, FALSE, <<"X">>)>>,
                  enabled |-> FALSE,
                  version |-> "1.1"])),
      Json(JDict([entries |-> <<NewEntry(AB, TRUE, <<"Z">>),
                               NewEntry(HugeRepeat, TRUE, <<"X">>),
                               NewEntry(<<"c">>, TRUE, <<"\\", "1">>)>>,
                  enabled |-> TRUE,
                  version |-> "1.1"])),
      Json(JDict([entries |-> <<NewEntry(<<>>, FALSE, <<"X">>),
                               [value |-> ABC, is_regex |-> FALSE]>>,
                  enabled |-> TRUE,
                  version |-> "1.1"])),
      Json(JDict([entries |-> <<NewEntry(<<"UD800">>, FALSE, <<"X">>)>>,
                  enabled |-> FALSE,
                  version |-> "1.1"])) }

\* a bundled dictionary in the current item shape and a bare string:
\* [{"value": "ab", "is_regex": false, "replacement": "X"}, "ab"]
CurrentDictFile ==
    Json(JList(<<JDict(<< <<KeyValue, JStr(AB)>>,
                          <<KeyIsRegex, [t |-> "bool", v |-> FALSE]>>,
                          <<KeyReplacement, JStr(<<"X">>)>> >>),
                 JStr(AB)>>))

\* a bundled dictionary in the legacy shapes, and an item that is neither
\* an object nor a string: ["B", {"ab": [["X"]], "abc": "Y"}, 7]
LegacyDictFile ==
    Json(JList(<<JStr(<<"B">>),
                 JDict(<< <<AB, JList(<<JList(<<JStr(<<"X">>)>>)>>)>>,
                          <<ABC, JStr(<<"Y">>)>> >>),
                 JOther>>))

\* a bundled dictionary whose top level is no list: {"ab": "X"}
ObjectDictFile == Json(JDict(<< <<AB, JStr(<<"X">>)>> >>))

DictFiles == {Absent, Corrupt, CurrentDictFile, LegacyDictFile, ObjectDictFile}

\* the files found at start-up, <<user config file, bundled dictionary>>:
\* a missing or unparseable config file over every dictionary, the other
\* config files over one dictionary
Installations ==
    ({Absent, Corrupt} \X DictFiles) \cup (ConfigFiles \X {CurrentDictFile})

(***************************************************************************)
(* The state machine.                                                      *)
(***************************************************************************)
\* SanamLuangConfig.__init__: the store and the files after _load_config
InitStore ==
    \E inst \in Installations :
        LET cf == inst[1]
            loaded == LoadConfig(cf, inst[2])
        IN  /\ dictFile = inst[2]
            /\ entries = loaded.entries
            /\ enabled = loaded.enabled
            /\ \E outcome \in (IF loaded.saves THEN SaveOutcomes(0, loaded.entries)
                                                  ELSE {"ok"}) :
                 /\ configFile = IF loaded.saves
                                 THEN SavedFile(cf, loaded.entries, loaded.enabled, outcome)
                                 ELSE cf
                 /\ saveFailures = IF loaded.saves THEN SaveFailuresAfter(0, outcome) ELSE 0

Init ==
    /\ InitStore
    /\ call = [op |-> "__init__"]
    /\ result = "None"

\* A method of the store ran: it left the rules es and the flag en in
\* memory and, when saves, returned what _save_config returned.
Mutation(c, es, en, saves) ==
    /\ call' = c
    /\ entries' = es
    /\ enabled' = en
    /\ UNCHANGED dictFile
    /\ IF saves
       THEN \E outcome \in SaveOutcomes(saveFailures, es) :
              /\ configFile' = SavedFile(configFile, es, en, outcome)
              /\ saveFailures' = SaveFailuresAfter(saveFailures, outcome)
              /\ result' = SaveReturns(outcome)
       ELSE /\ UNCHANGED <<configFile, saveFailures>>
            /\ result' = FALSE

add_entry(pattern, is_regex, replacement) ==
    /\ Len(entries) < MaxEntries \/ KeyExists(entries, pattern, is_regex)
    /\ LET r == AddEntry(entries, pattern, is_regex, replacement)
       IN  Mutation([op |-> "add_entry", pattern |-> pattern, is_regex |-> is_regex,
                     replacement |-> replacement],
                    r.entries, enabled, r.saves)

update_entry(old_entry, new_pattern, new_is_regex, new_replacement) ==
    LET r == UpdateEntry(entries, old_entry, new_pattern, new_is_regex, new_replacement)
    IN  Mutation([op |-> "update_entry", old_entry |-> old_entry,
                  new_pattern |-> new_pattern, new_is_regex |-> new_is_regex,
                  new_replacement |-> new_replacement],
                 r.entries, enabled, r.saves)

remove_entry(entry) ==
    LET r == RemoveEntry(entries, entry)
    IN  Mutation([op |-> "remove_entry", entry |-> entry], r.entries, enabled, r.saves)

reset_to_defaults ==
    LET r == ResetToDefaults(dictFile)
    IN  Mutation([op |-> "reset_to_defaults"], r.entries, enabled, r.saves)

set_enabled(en) ==
    Mutation([op |-> "set_enabled", enabled |-> en], entries, en, TRUE)

\* the speech hook runs on a text (the live path)
process_text_hook(text) ==
    /\ call' = [op |-> "_process_text_hook", text |-> text]
    /\ result' = ProcessTextHook(enabled, entries, text)
    /\ UNCHANGED <<entries, enabled, configFile, dictFile, saveFailures>>

\* the selection is corrected (the manual path)
apply_corrections(text) ==
    /\ call' = [op |-> "_apply_corrections", text |-> text]
    /\ result' = ApplyCorrections(entries, text)
    /\ UNCHANGED <<entries, enabled, configFile, dictFile, saveFailures>>

\* a new session: SanamLuangConfig() is constructed over the files as the
\* last session left them
load_config ==
    LET loaded == LoadConfig(configFile, dictFile)
    IN  /\ call' = [op |-> "_load_config"]
        /\ result' = "None"
        /\ entries' = loaded.entries
        /\ enabled' = loaded.enabled
        /\ UNCHANGED dictFile
        /\ IF loaded.saves
           THEN \E outcome \in SaveOutcomes(saveFailures, loaded.entries) :
                  /\ configFile' = SavedFile(configFile, loaded.entries, loaded.enabled, outcome)
                  /\ saveFailures' = SaveFailuresAfter(saveFailures, outcome)
           ELSE UNCHANGED <<configFile, saveFailures>>

Next ==
    \/ \E r \in UserRules : add_entry(r.value, r.is_regex, r.replacement)
    \/ \E old \in UserRules, new \in UserRules :
           update_entry(old, new.value, new.is_regex, new.replacement)
    \/ \E r \in UserRules : remove_entry(r)
    \/ reset_to_defaults
    \/ \E en \in BOOLEAN : set_enabled(en)
    \/ \E text \in Texts : process_text_hook(text)
    \/ \E text \in Texts : apply_corrections(text)
    \/ load_config

Spec == Init /\ [][Next]_vars

(***************************************************************************)
(* add_entry statement by statement, called from two threads.  Here call   *)
(* holds the calls in progress: the frame of each thread, whether the host *)
(* lets one call at a time into the store (exclusive), and whether the     *)
(* rule list is as list.sort left it when it began (untouched); result     *)
(* holds what each call returned or raised.                                *)
(*                                                                         *)
(* list.sort with a key function empties the list while it runs, sorts a   *)
(* private copy and puts it back; when the list was resized meanwhile it   *)
(* still puts the copy back, and raises ValueError.  The key function is   *)
(* Python code, so another thread can run between the two halves.          *)
(***************************************************************************)
Threads == {1, 2}

IdleFrame ==
    [pc |-> "idle", new_entry |-> NewEntry(<<>>, FALSE, <<>>),
     saved |-> <<>>, saved_untouched |-> FALSE]

ThreadsInit ==
    /\ InitStore
    /\ \E exclusive \in BOOLEAN :
           call = [exclusive |-> exclusive, untouched |-> FALSE,
                   frames |-> [t \in Threads |-> IdleFrame]]
    /\ result = [t \in Threads |-> "None"]

\* a faulty host: a call enters the store while another one is inside
EntersAtAnyTime(t) == TRUE

\* The host lets thread t call into the store: always, or, when it runs the
\* store's methods one at a time, only while no other call is inside.
MayEnter(t) ==
    call.exclusive =>
        \A u \in Threads \ {t} : call.frames[u].pc \in {"idle", "done"}

\* thread t returns from its call
Return(t, value) ==
    /\ result' = [result EXCEPT ![t] = value]
    /\ call' = [call EXCEPT !.frames[t].pc = "done"]

\* new_entry = {...}; if not any(... for d in self.entries): else return False
add_entry_check(t, pattern, is_regex, replacement) ==
    /\ call.frames[t].pc = "idle"
    /\ MayEnter(t)
    /\ Len(entries) < MaxEntries
    /\ IF KeyExists(entries, pattern, is_regex)
       THEN /\ result' = [result EXCEPT ![t] = "False"]
            /\ call' = [call EXCEPT !.frames[t].pc = "done",
                                    !.frames[t].new_entry =
                                        NewEntry(pattern, is_regex, replacement)]
       ELSE /\ call' = [call EXCEPT !.frames[t].pc = "append",
                                    !.frames[t].new_entry =
                                        NewEntry(pattern, is_regex, replacement)]
            /\ UNCHANGED result
    /\ UNCHANGED <<entries, enabled, configFile, dictFile, saveFailures>>

\* self.entries.append(new_entry)
add_entry_append(t) ==
    /\ call.frames[t].pc = "append"
    /\ entries' = Append(entries, call.frames[t].new_entry)
    /\ call' = [call EXCEPT !.frames[t].pc = "sort", !.untouched = FALSE]
    /\ UNCHANGED <<enabled, configFile, dictFile, saveFailures, result>>

\* self.entries.sort(key=...), first half: the list is emptied and its rules
\* are sorted aside.  An empty list has no key to compute: its sort is over
\* at once.
add_entry_sort(t) ==
    /\ call.frames[t].pc = "sort"
    /\ IF entries = <<>>
       THEN /\ call' = [call EXCEPT !.frames[t].pc = "save"]
            /\ UNCHANGED entries
       ELSE /\ entries' = <<>>
            /\ call' = [call EXCEPT !.frames[t].pc = "sorted",
                                    !.frames[t].saved = SortEntries(entries),
                                    !.frames[t].saved_untouched = call.untouched,
                                    !.untouched = TRUE]
    /\ UNCHANGED <<enabled, configFile, dictFile, saveFailures, result>>

\* self.entries.sort(key=...), second half: the sorted rules are put back;
\* ValueError leaves add_entry when the list was resized during the sort
add_entry_sorted(t) ==
    /\ call.frames[t].pc = "sorted"
    /\ entries' = call.frames[t].saved
    /\ IF call.untouched
       THEN /\ call' = [call EXCEPT !.frames[t].pc = "save",
                                    !.untouched = call.frames[t].saved_untouched]
            /\ UNCHANGED result
       ELSE /\ call' = [call EXCEPT !.frames[t].pc = "done",
                                    !.untouched = call.frames[t].saved_untouched]
            /\ result' = [result EXCEPT ![t] = "ValueError"]
    /\ UNCHANGED <<enabled, configFile, dictFile, saveFailures>>

\* return self._save_config()
add_entry_save(t) ==
    /\ call.frames[t].pc = "save"
    /\ \E outcome \in SaveOutcomes(saveFailures, entries) :
           /\ configFile' = SavedFile(configFile, entries, enabled, outcome)
           /\ saveFailures' = SaveFailuresAfter(saveFailures, outcome)
           /\ Return(t, IF SaveReturns(outcome) THEN "True" ELSE "False")
    /\ UNCHANGED <<entries, enabled, dictFile>>

ThreadsNext ==
    \/ \E t \in Threads, r \in UserRules :
           add_entry_check(t, r.value, r.is_regex, r.replacement)
    \/ \E t \in Threads : add_entry_append(t)
    \/ \E t \in Threads : add_entry_sort(t)
    \/ \E t \in Threads : add_entry_sorted(t)
    \/ \E t \in Threads : add_entry_save(t)

SpecThreads == ThreadsInit /\ [][ThreadsNext]_vars

(***************************************************************************)
(* The main gesture (GlobalPlugin.script_main) and its timer.  Here call   *)
(* holds the plugin's gesture state: the clock time.time() reads (now, in  *)
(* ticks of a quarter of a second), _last_gesture_time and                 *)
(* _single_tap_timer; result holds what the activations did: for each      *)
(* activation its time, whether it toggled the add-on, whether its timer   *)
(* was stopped, how often its single-tap action ran and what that did.     *)
(*                                                                         *)
(* wx.CallLater runs its callback from the main loop at or after the time  *)
(* it is due, so an activation can be handled while a due timer waits.     *)
(***************************************************************************)
\* self._double_tap_threshold = 0.5, in ticks
DoubleTapThreshold == 2

\* time.time() when the plugin is loaded: long after the epoch
StartTime == 2 * DoubleTapThreshold

\* self._single_tap_timer = None
NoTimer == [running |-> FALSE, due |-> 0, tap |-> 0]

\* what the focused object offers as its selection: nothing, or a text
Selections == {<<>>} \cup Texts

GestureInit ==
    /\ InitStore
    /\ call = [now |-> StartTime, last_gesture_time |-> 0, timer |-> NoTimer]
    /\ result = <<>>

\* if self._single_tap_timer and self._single_tap_timer.IsRunning(): Stop()
StopTimer(taps, timer) ==
    IF timer.running THEN [taps EXCEPT ![timer.tap].stopped = TRUE] ELSE taps

\* GlobalPlugin.script_main, with _toggle_addon on the double-tap branch
script_main ==
    /\ Len(result) < MaxTaps
    /\ IF call.now - call.last_gesture_time < DoubleTapThreshold
       THEN /\ result' = Append(StopTimer(result, call.timer),
                                [at |-> call.now, toggled |-> TRUE, stopped |-> FALSE,
                                 acted |-> 0, did |-> "nothing"])
            /\ call' = [call EXCEPT !.timer = NoTimer, !.last_gesture_time = 0]
            /\ enabled' = ~enabled
            /\ \E outcome \in SaveOutcomes(saveFailures, entries) :
                   /\ configFile' = SavedFile(configFile, entries, ~enabled, outcome)
                   /\ saveFailures' = SaveFailuresAfter(saveFailures, outcome)
       ELSE /\ result' = Append(StopTimer(result, call.timer),
                                [at |-> call.now, toggled |-> FALSE, stopped |-> FALSE,
                                 acted |-> 0, did |-> "nothing"])
            /\ call' = [call EXCEPT !.last_gesture_time = call.now,
                                    !.timer = [running |-> TRUE,
                                               due |-> call.now + DoubleTapThreshold,
                                               tap |-> Len(result) + 1]]
            /\ UNCHANGED <<enabled, configFile, saveFailures>>
    /\ UNCHANGED <<entries, dictFile>>

\* What _execute_single_tap_action does with this selection: it opens the
\* settings when nothing is selected or an exception leaves the engine,
\* reports that nothing changed, or replaces the selection.
SingleTapAction(es, selection) ==
    IF selection = <<>> THEN "open_settings"
    ELSE LET corrected == ApplyCorrections(es, selection)
         IN  IF corrected.raised THEN "open_settings"
             ELSE IF corrected.text = selection THEN "nothing_to_correct"
             ELSE "replace_text"

\* the timer fires: GlobalPlugin._execute_single_tap_action
execute_single_tap_action ==
    /\ call.timer.running
    /\ call.now >= call.timer.due
    /\ \E selection \in Selections :
           result' = [result EXCEPT ![call.timer.tap].acted = @ + 1,
                                    ![call.timer.tap].did =
                                        SingleTapAction(entries, selection)]
    /\ call' = [call EXCEPT !.timer.running = FALSE]
    /\ UNCHANGED <<entries, enabled, configFile, dictFile, saveFailures>>

\* time passes
tick ==
    /\ call.now < StartTime + MaxTicks
    /\ call' = [call EXCEPT !.now = @ + 1]
    /\ UNCHANGED <<entries, enabled, configFile, dictFile, saveFailures, result>>

GestureNext ==
    \/ script_main
    \/ execute_single_tap_action
    \/ tick

SpecGesture == GestureInit /\ [][GestureNext]_vars

(***************************************************************************)
(* The settings dialog (SanamLuangDialog).  Here call holds the dialog:    *)
(* the strings of its list box (entriesList) and its own self.entries,     *)
(* which is a reference to a list: the list object of the store (aliased,  *)
(* so that what the store does to its list in place is seen through it)    *)
(* or, once reset_to_defaults gave the store a new list, the list object   *)
(* the store had before (detached).  result holds what the last handler    *)
(* did: the string selected in the list box, the rule it handed to the     *)
(* store, what the store returned and whether the handler raised.          *)
(***************************************************************************)
\* SanamLuangConfig.get_display_word; "[Regex] " is f"[{_('Regex')}] "
GetDisplayWord(word_data) ==
    LET value == IF WORD_VALUE \in DOMAIN word_data THEN word_data.value ELSE <<>>
        is_regex == IF WORD_IS_REGEX \in DOMAIN word_data THEN word_data.is_regex ELSE FALSE
        replacement == GetReplacement(word_data)
    IN  (IF is_regex THEN <<"[Regex] ">> ELSE <<>>)
        \o value
        \o (IF replacement # <<>> THEN <<" ", " ">> \o replacement ELSE <<>>)

\* the strings _refresh_entries_list appends to the list box
DisplayWords(es) == [i \in 1..Len(es) |-> GetDisplayWord(es[i])]

\* the list the dialog's self.entries refers to
DialogEntries(dlg, es) == IF dlg.aliased THEN es ELSE dlg.detached

\* self.entries = self.config.get_entries() and the list box filled from it
Refreshed(op, es) ==
    [op |-> op, aliased |-> TRUE, detached |-> <<>>, entriesList |-> DisplayWords(es)]

\* the dialog after a handler that did not refresh, the store holding the
\* list it held before (changed in place or not) or, rebound, a new one
NotRefreshed(op, rebound) ==
    [call EXCEPT !.op = op,
                 !.aliased = call.aliased /\ ~rebound,
                 !.detached = IF call.aliased /\ rebound THEN entries
                              ELSE call.detached]

\* what a handler leaves in result
Handled(selected, handed, returned) ==
    [raised |-> FALSE, selected |-> selected, handed |-> handed, returned |-> returned]

\* self.entries[selection] raised IndexError
HandlerRaised(selected) ==
    [raised |-> TRUE, selected |-> selected, handed |-> <<>>, returned |-> FALSE]

\* SanamLuangDialog.__init__ and initUI, on a store just loaded, in an
\* installation whose bundled dictionary is the current one
DialogInit ==
    /\ InitStore
    /\ dictFile = CurrentDictFile
    /\ call = Refreshed("__init__", entries)
    /\ result = Handled(<<>>, <<>>, FALSE)

\* nothing was handed to the store: the user cancelled or left the pattern
\* empty
DialogCancelled(op, selected) ==
    /\ call' = NotRefreshed(op, FALSE)
    /\ result' = Handled(selected, <<>>, FALSE)
    /\ UNCHANGED <<entries, enabled, configFile, dictFile, saveFailures>>

\* A method of the store was called from a handler: it left the rules es
\* in memory and, when saves, returned what _save_config returned; the
\* handler calls _refresh_entries_list when it returned true.
DialogCalls(op, selected, handed, es, saves, rebound) ==
    /\ entries' = es
    /\ UNCHANGED <<enabled, dictFile>>
    /\ \E outcome \in (IF saves THEN SaveOutcomes(saveFailures, es) ELSE {"not_saved"}) :
          LET returned == saves /\ SaveReturns(outcome)
          IN  /\ configFile' = IF saves THEN SavedFile(configFile, es, enabled, outcome)
                                         ELSE configFile
              /\ saveFailures' = IF saves THEN SaveFailuresAfter(saveFailures, outcome)
                                           ELSE saveFailures
              /\ result' = Handled(selected, handed, returned)
              /\ call' = IF returned THEN Refreshed(op, es)
                                     ELSE NotRefreshed(op, rebound)

\* the selection of the list box, with the string it shows
Selected(selection) == <<call.entriesList[selection]>>

\* SanamLuangDialog.on_add
on_add(ok, pattern, is_regex, replacement) ==
    IF ok /\ pattern # <<>>
    THEN /\ Len(entries) < MaxEntries \/ KeyExists(entries, pattern, is_regex)
         /\ LET r == AddEntry(entries, pattern, is_regex, replacement)
            IN  DialogCalls("on_add", <<>>, <<>>, r.entries, r.saves, FALSE)
    ELSE DialogCancelled("on_add", <<>>)

\* SanamLuangDialog.on_edit
on_edit(selection, ok, new_pattern, new_is_regex, new_replacement) ==
    IF selection > Len(DialogEntries(call, entries))
    THEN /\ call' = NotRefreshed("on_edit", FALSE)
         /\ result' = HandlerRaised(Selected(selection))
         /\ UNCHANGED <<entries, enabled, configFile, dictFile, saveFailures>>
    ELSE IF ok /\ new_pattern # <<>>
    THEN LET old_entry == DialogEntries(call, entries)[selection]
             r == UpdateEntry(entries, old_entry, new_pattern, new_is_regex, new_replacement)
         IN  DialogCalls("on_edit", Selected(selection), <<old_entry>>,
                         r.entries, r.saves, FALSE)
    ELSE DialogCancelled("on_edit", Selected(selection))

\* SanamLuangDialog.on_remove
on_remove(selection, yes) ==
    IF ~yes
    THEN DialogCancelled("on_remove", Selected(selection))
    ELSE IF selection > Len(DialogEntries(call, entries))
    THEN /\ call' = NotRefreshed("on_remove", FALSE)
         /\ result' = HandlerRaised(Selected(selection))
         /\ UNCHANGED <<entries, enabled, configFile, dictFile, saveFailures>>
    ELSE LET entry == DialogEntries(call, entries)[selection]
             r == RemoveEntry(entries, entry)
         IN  DialogCalls("on_remove", Selected(selection), <<entry>>,
                         r.entries, r.saves, FALSE)

\* SanamLuangDialog.on_reset
on_reset(yes) ==
    IF yes
    THEN LET r == ResetToDefaults(dictFile)
         IN  DialogCalls("on_reset", <<>>, <<>>, r.entries, r.saves, TRUE)
    ELSE DialogCancelled("on_reset", <<>>)

\* what the user types into the EntryDialog
DialogRules == UserRules \cup {NewEntry(<<>>, FALSE, <<>>)}

DialogNext ==
    \/ \E ok \in BOOLEAN, r \in DialogRules :
           on_add(ok, r.value, r.is_regex, r.replacement)
    \/ \E selection \in 1..Len(call.entriesList), ok \in BOOLEAN, r \in DialogRules :
           on_edit(selection, ok, r.value, r.is_regex, r.replacement)
    \/ \E selection \in 1..Len(call.entriesList), yes \in BOOLEAN :
           on_remove(selection, yes)
    \/ \E yes \in BOOLEAN : on_reset(yes)

SpecDialog == DialogInit /\ [][DialogNext]_vars

(***************************************************************************)
(* Properties.                                                             *)
(***************************************************************************)
Mutators == {"add_entry", "update_entry", "remove_entry", "reset_to_defaults", "set_enabled"}

\* the rules of the list, as a set
RulesOf(es) == {es[i] : i \in 1..Len(es)}

\* how many rules of the list carry this key
KeyCount(es, pattern, is_regex) ==
    Cardinality({i \in 1..Len(es) : SameKey(es[i], pattern, is_regex)})

\* how many times this rule occurs in the list
Occurrences(es, e) == Cardinality({i \in 1..Len(es) : es[i] = e})

\* C1: in every reachable state of the rule store no two rules share the
\* same (pattern, isRegex) pair.
C1_UniqueKeys ==
    \A i, j \in 1..Len(entries) :
        i # j => ~SameKey(entries[i], entries[j].value, entries[j].is_regex)

\* C2: in every reachable state of the rule store the rules are in
\* non-decreasing order of their lower-cased pattern.
C2_SortedByLowerPattern ==
    \A i \in 1..(Len(entries) - 1) :
        ~StrLess(Lower(entries[i + 1].value), Lower(entries[i].value))

\* C3: the live path hands the text on unmodified whenever enabled is false
\* or the rule list is empty; the manual path runs the full engine whatever
\* enabled is: it returns what the live path yields with the flag on.
C3_EnabledAsymmetry ==
    /\ (call.op = "_process_text_hook" /\ (~enabled \/ entries = <<>>))
           => result = Returned(call.text)
    /\ call.op = "_apply_corrections"
           => result = ProcessTextHook(TRUE, entries, call.text)

\* C3, its case: the flag is off and the manual path corrected the text.
C3_Witness ==
    /\ call.op = "_apply_corrections"
    /\ ~enabled
    /\ ~result.raised
    /\ result.text # call.text

\* C4: the literal rules are applied longest pattern first: with the rules
\* ("ab" to "X") and ("abc" to "Y"), in either order in the rule list, the
\* text "abc" becomes "Y" on both paths.
C4_LongerLiteralFirst ==
    ( /\ \/ call.op = "_apply_corrections"
         \/ call.op = "_process_text_hook" /\ enabled
      /\ call.text = ABC
      /\ RulesOf(entries) = {NewEntry(AB, FALSE, <<"X">>), NewEntry(ABC, FALSE, <<"Y">>)} )
        => result = Returned(<<"Y">>)

\* C4, its case: "ab" stands before "abc" in the rule list and "abc" was
\* corrected to "Y".
C4_Witness ==
    /\ call.op = "_apply_corrections"
    /\ call.text = ABC
    /\ entries = <<NewEntry(AB, FALSE, <<"X">>), NewEntry(ABC, FALSE, <<"Y">>)>>
    /\ result = Returned(<<"Y">>)

\* a regex rule whose re.sub call raises
FailsToSubstitute(entry) ==
    /\ entry.is_regex
    /\ entry.value # <<>>
    /\ ReSub(entry.value, GetReplacement(entry), <<>>).status # "ok"

KeepsWorking(entry) == ~FailsToSubstitute(entry)

\* C5: a regex rule that fails to compile or raises during substitution is
\* skipped: the engine raises nothing and returns what the other rules
\* alone produce.
C5_BadRegexSkipped ==
    /\ call.op = "_apply_corrections"
           => /\ ~result.raised
              /\ result = ApplyCorrections(SelectSeq(entries, KeepsWorking), call.text)
    /\ (call.op = "_process_text_hook" /\ enabled /\ entries # <<>>)
           => /\ ~result.raised
              /\ result = HookRegexPass(
                     HookPairs(SelectSeq(entries, KeepsWorking), TRUE),
                     HookLiteralPass(
                         SortedByLenDesc(HookPairs(SelectSeq(entries, KeepsWorking), FALSE)),
                         call.text))

\* the step left the rule list, the flag and the user config file alone
StoreUntouched ==
    /\ entries' = entries
    /\ enabled' = enabled
    /\ configFile' = configFile

\* the step is add_entry with a key the rule list already holds
AddsExistingKey ==
    /\ call'.op = "add_entry"
    /\ KeyExists(entries, call'.pattern, call'.is_regex)

\* the step is update_entry, the old rule is found and the new key is the
\* key of another rule of the list
UpdatesIntoOtherKey ==
    /\ call'.op = "update_entry"
    /\ KeyExists(entries, call'.old_entry.value, call'.old_entry.is_regex)
    /\ Collides(entries,
                IndexOfKey(entries, call'.old_entry.value, call'.old_entry.is_regex),
                call'.new_pattern, call'.new_is_regex)

\* C6: add_entry with a (pattern, isRegex) pair the rule list already holds
\* returns false and changes neither the rule list, nor the flag, nor the
\* persisted record, also when the replacement differs.
C6_AddDuplicateNoChange ==
    [][AddsExistingKey => (result' = FALSE /\ StoreUntouched)]_vars

\* C6, its case: add_entry returned false although no write has failed, and
\* the rule that holds the key has another replacement than the one offered.
C6_Witness ==
    /\ call.op = "add_entry"
    /\ result = FALSE
    /\ saveFailures = 0
    /\ EntriesEncodable(entries)
    /\ \E i \in 1..Len(entries) :
           /\ SameKey(entries[i], call.pattern, call.is_regex)
           /\ GetReplacement(entries[i]) # call.replacement

\* C7: when update_entry finds A and the new key is the key of another rule
\* B, then A is removed, every other rule stays as it was, the list is one
\* shorter and no two rules carry the new key.
C7_UpdateCollision ==
    [][UpdatesIntoOtherKey =>
          LET index == IndexOfKey(entries, call'.old_entry.value, call'.old_entry.is_regex)
          IN  /\ Len(entries') = Len(entries) - 1
              /\ \A e \in RulesOf(entries) :
                     Occurrences(entries', e) =
                         Occurrences(entries, e) - (IF e = entries[index] THEN 1 ELSE 0)
              /\ KeyCount(entries', call'.new_pattern, call'.new_is_regex) <= 1]_vars

\* C8: adding a rule with a key the rule list already holds, and renaming a
\* rule into the key of another rule, both return false.
C8_DuplicateReturnsFalse ==
    [][(AddsExistingKey \/ UpdatesIntoOtherKey) => result' = FALSE]_vars

\* C8 as amended: add_entry with an existing key returns false; update_entry
\* into the key of another rule returns a boolean that is true exactly when
\* the write of the config file succeeded: no I/O error, and every string of
\* the rules could be encoded.
C8_DuplicateAddFalseRenameSaved ==
    [][/\ AddsExistingKey => result' = FALSE
       /\ UpdatesIntoOtherKey =>
              /\ result' \in BOOLEAN
              /\ result' = (saveFailures' = saveFailures /\ EntriesEncodable(entries'))]_vars

\* C8, its case: update_entry returned true and no rule of the list is the
\* rule the call asked for: the old rule gave way to the rule that held the
\* new key.
C8_Witness ==
    /\ call.op = "update_entry"
    /\ result = TRUE
    /\ KeyExists(entries, call.new_pattern, call.new_is_regex)
    /\ \A i \in 1..Len(entries) :
           entries[i] # NewEntry(call.new_pattern, call.new_is_regex, call.new_replacement)

\* C9: update_entry with an old rule whose key is not in the rule list, and
\* remove_entry with a rule that equals no rule of the list, return false
\* and leave the rule list, the flag and the persisted record as they were.
C9_NotFoundNoChange ==
    [][/\ ( /\ call'.op = "update_entry"
            /\ ~KeyExists(entries, call'.old_entry.value, call'.old_entry.is_regex) )
          => (result' = FALSE /\ StoreUntouched)
       /\ ( /\ call'.op = "remove_entry"
            /\ \A i \in 1..Len(entries) : entries[i] # call'.entry )
          => (result' = FALSE /\ StoreUntouched)]_vars

\* C9, its case: remove_entry returned false although no write has failed,
\* and the rule list holds the key of the rule but not the rule itself.
C9_Witness ==
    /\ call.op = "remove_entry"
    /\ result = FALSE
    /\ saveFailures = 0
    /\ EntriesEncodable(entries)
    /\ KeyExists(entries, call.entry.value, call.entry.is_regex)
    /\ \A i \in 1..Len(entries) : entries[i] # call.entry

\* C10: whenever a mutating method has returned true, the persisted record
\* holds the in-memory rules in their order, the in-memory flag and the
\* version "1.1".
C10_SavedWhenTrue ==
    (call.op \in Mutators /\ result = TRUE)
        => configFile =
               Json(JDict([entries |-> entries, enabled |-> enabled, version |-> "1.1"]))

\* C10, its case: a write had failed before, and a later mutation of a
\* non-empty rule list returned true.
C10_Witness ==
    /\ call.op \in Mutators
    /\ result = TRUE
    /\ saveFailures > 0
    /\ entries # <<>>

\* what the method of this step leaves in memory, and whether it goes on to
\* _save_config
Intended ==
    CASE call'.op = "add_entry" ->
             AddEntry(entries, call'.pattern, call'.is_regex, call'.replacement)
                 @@ [enabled |-> enabled]
      [] call'.op = "update_entry" ->
             UpdateEntry(entries, call'.old_entry, call'.new_pattern,
                         call'.new_is_regex, call'.new_replacement)
                 @@ [enabled |-> enabled]
      [] call'.op = "remove_entry" ->
             RemoveEntry(entries, call'.entry) @@ [enabled |-> enabled]
      [] call'.op = "reset_to_defaults" ->
             ResetToDefaults(dictFile) @@ [enabled |-> enabled]
      [] call'.op = "set_enabled" ->
             [entries |-> entries, saves |-> TRUE, enabled |-> call'.enabled]

\* the step is a mutating method whose write of the config file failed
WriteFailed ==
    /\ call'.op \in Mutators
    /\ Intended.saves
    /\ saveFailures' # saveFailures \/ ~EntriesEncodable(Intended.entries)

\* C11: when the write fails during add, update, remove, resetToDefaults or
\* setEnabled, the method returns false, the change stays in memory, and the
\* persisted record keeps the content it had before the call.
C11_FailedWriteKeepsRecord ==
    [][WriteFailed =>
          /\ result' = FALSE
          /\ entries' = Intended.entries
          /\ enabled' = Intended.enabled
          /\ configFile' = configFile]_vars

\* the step is a load that finds the user config file in one of these kinds
LoadsFrom(kinds) == call'.op = "_load_config" /\ configFile.kind \in kinds

\* the load of this step fell back to the default dictionary with the flag
\* on and, unless the write failed, left the fallback rules in the record,
\* from where the next load reads them
FallsBackAndPersists ==
    /\ entries' = LoadDefaultDictionary(dictFile)
    /\ enabled' = TRUE
    /\ (saveFailures' = saveFailures /\ EntriesEncodable(entries'))
           => /\ configFile' = DumpConfig(entries', TRUE)
              /\ LoadConfig(configFile', dictFile) =
                     [entries |-> entries', enabled |-> TRUE, saves |-> FALSE]

\* C12: load falls back to the default dictionary with enabled = true both
\* when the persisted record is absent and when it fails to parse, and in
\* both cases persists the fallback at once, so that the record holds the
\* defaults in the current schema and the next load reads them from it.
C12_FallbackPersisted ==
    [][LoadsFrom({"absent", "corrupt"}) => FallsBackAndPersists]_vars

\* a second load right after the load of this step yields the same rules in
\* the same order and the same flag
SecondLoadIdentical ==
    LET again == LoadConfig(configFile', dictFile)
    IN  again.entries = entries' /\ again.enabled = enabled'

\* C13: with no persisted record, load yields a non-empty rule list whatever
\* the bundled dictionary file is (missing, unparseable, or parseable in any
\* shape), and a second load with nothing in between yields the identical
\* rule list and flag.
C13_IdempotentBootstrap ==
    [][LoadsFrom({"absent"}) => (entries' # <<>> /\ SecondLoadIdentical)]_vars

\* the record is an object with the fields entries and enabled
CurrentSchema(cf) ==
    /\ cf.kind = "json"
    /\ cf.data.t = "dict"
    /\ {"entries", "enabled"} \subseteq DOMAIN cf.data.v

\* the step saves what a load has just read from a record it accepted: the
\* last call was the load, this call writes the flag it already has, and no
\* I/O error hits the write
SavesWhatWasLoaded ==
    /\ call.op \in {"__init__", "_load_config"}
    /\ configFile.kind = "json"
    /\ call'.op = "set_enabled"
    /\ call'.enabled = enabled
    /\ saveFailures' = saveFailures

\* C14: for every record that load accepts (current schema, an object that
\* lacks entries or enabled, a bare list), saving the loaded rules and
\* loading again yields the entries and the flag of the first load, and the
\* save after a load of a current-schema record writes the entries and the
\* flag of that record.
C14_RoundTrip ==
    [][SavesWhatWasLoaded =>
          /\ LoadConfig(configFile', dictFile).entries = entries
          /\ LoadConfig(configFile', dictFile).enabled = enabled
          /\ CurrentSchema(configFile) =>
                 /\ CurrentSchema(configFile')
                 /\ configFile'.data.v.entries = configFile.data.v.entries
                 /\ configFile'.data.v.enabled = configFile.data.v.enabled]_vars

\* C15: reset_to_defaults replaces the whole rule list by what
\* _load_default_dictionary yields, leaves the enabled flag as it was and
\* persists the result: it returns true when the write succeeded, and then
\* the record holds the new list and the flag.
C15_ResetReplacesAll ==
    [][call'.op = "reset_to_defaults" =>
          /\ entries' = LoadDefaultDictionary(dictFile)
          /\ enabled' = enabled
          /\ result' = (saveFailures' = saveFailures /\ EntriesEncodable(entries'))
          /\ result' = TRUE => configFile' = DumpConfig(entries', enabled)]_vars

\* C15, its case: the flag is off, the reset has been written and the list
\* is the one of the bundled dictionary file, not the built-in one.
C15_Witness ==
    /\ call.op = "reset_to_defaults"
    /\ result = TRUE
    /\ ~enabled
    /\ dictFile = LegacyDictFile
    /\ entries = LoadDefaultDictionary(LegacyDictFile)
    /\ configFile = DumpConfig(entries, FALSE)

EngineOps == {"_process_text_hook", "_apply_corrections"}

\* what the engine call c yields from the flag, the rules and its text
EngineResult(c, en, es) ==
    IF c.op = "_process_text_hook"
    THEN ProcessTextHook(en, es, c.text)
    ELSE ApplyCorrections(es, c.text)

\* C16: the engine is pure.  A call on either path leaves the rules, their
\* order, the flag and the persisted record as they were; its result is
\* determined by the rules, the flag and the text, whatever calls went
\* before; and the same call made again returns the same result.
C16_EnginePure ==
    [][call'.op \in EngineOps =>
          /\ StoreUntouched
          /\ result' = EngineResult(call', enabled, entries)
          /\ (call.op = call'.op /\ call.text = call'.text) => result' = result]_vars

\* C16, its case: the live path corrected a text while the record on disk
\* differs from memory (a write had failed), and the record stayed so.
C16_Witness ==
    /\ call.op = "_process_text_hook"
    /\ ~result.raised
    /\ result.text # call.text
    /\ saveFailures > 0
    /\ configFile # DumpConfig(entries, enabled)

IsLiteralRule(e) == e.value # <<>> /\ ~e.is_regex
IsRegexRule(e) == e.value # <<>> /\ e.is_regex

\* these literal rules applied to the text one after another
RECURSIVE LiteralsApplied(_, _)
LiteralsApplied(rules, text) ==
    IF rules = <<>> THEN text
    ELSE LiteralsApplied(Tail(rules),
                         StrReplace(text, Head(rules).value, GetReplacement(Head(rules))))

\* the regex rules applied one after another, each to the text the step
\* before left; a rule that raises re.error leaves the text as it is, any
\* other exception ends the pass
RECURSIVE RegexesApplied(_, _)
RegexesApplied(rules, text) ==
    IF rules = <<>> THEN Returned(text)
    ELSE LET r == ReSub(Head(rules).value, GetReplacement(Head(rules)), text)
         IN  CASE r.status = "ok" -> RegexesApplied(Tail(rules), r.text)
               [] r.status = "re.error" -> RegexesApplied(Tail(rules), text)
               [] OTHER -> Raised(r.status)

\* the literal rules of the list, longest pattern first, rules of one length
\* in list order
RECURSIVE LongestFirst(_)
LongestFirst(rules) ==
    IF rules = <<>> THEN <<>>
    ELSE LET first == CHOOSE i \in 1..Len(rules) :
                          /\ \A j \in 1..Len(rules) :
                                 Len(rules[j].value) <= Len(rules[i].value)
                          /\ \A j \in 1..(i - 1) :
                                 Len(rules[j].value) < Len(rules[i].value)
         IN  <<rules[first]>> \o LongestFirst(Pop(rules, first))

\* the engine ran in full: a manual call, or a live call with the flag on
\* and a non-empty list
EngineRan ==
    \/ call.op = "_apply_corrections"
    \/ call.op = "_process_text_hook" /\ enabled /\ entries # <<>>

\* C17: every literal rule is applied before any regex rule, wherever the
\* rules stand in the list; the regex rules are then applied in list order,
\* each to the text of the step before; a rule with an empty pattern is
\* applied in neither pass.
C17_PhaseOrder ==
    EngineRan =>
        result = RegexesApplied(SelectSeq(entries, IsRegexRule),
                     LiteralsApplied(LongestFirst(SelectSeq(entries, IsLiteralRule)),
                                     call.text))

\* C17, its case: the regex rule ".c" stands before the literal rule "ab" in
\* the list; "abc" became "Xc" in the literal pass and then "B" in the regex
\* pass (the regex rule first would have given "aB").
C17_Witness ==
    /\ call.op = "_process_text_hook"
    /\ enabled
    /\ call.text = ABC
    /\ Len(entries) = 3
    /\ entries[1] = NewEntry(<<".", "c">>, TRUE, <<"B">>)
    /\ entries[3] = NewEntry(AB, FALSE, <<"X">>)
    /\ result = Returned(<<"B">>)

\* the pattern occurs in the text as a substring
Occurs(pattern, text) ==
    \E i \in 0..(Len(text) - Len(pattern)) : SubSeq(text, i + 1, i + Len(pattern)) = pattern

\* the regular expression has a match somewhere in the text
HasMatch(pattern, text) ==
    LET compiled == CompileRegex(pattern)
    IN  /\ compiled.status = "ok"
        /\ \E i \in 0..Len(text) : MatchAt(Drop(text, i), compiled.atoms)

\* no literal rule's pattern occurs in the text and no regex rule's pattern
\* has a match in it
NothingMatches(es, text) ==
    \A i \in 1..Len(es) :
        IF es[i].is_regex THEN ~HasMatch(es[i].value, text)
                          ELSE ~Occurs(es[i].value, text)

\* C18: when no literal rule's pattern occurs in the text and no regex
\* rule's pattern has a match in it, the engine returns the text unchanged,
\* and so does a second application to that result.
C18_FixedPoint ==
    (EngineRan /\ NothingMatches(entries, call.text))
        => /\ result = Returned(call.text)
           /\ EngineResult([op |-> call.op, text |-> result.text], enabled, entries)
                  = Returned(call.text)

\* C20: the live path and the manual path are the same engine: for every
\* text and every non-empty rule list with the flag on, what the live hook
\* hands to the original text processor is what the manual path returns for
\* the same text (and when one raises, the other raises the same).
C20_PathsAgree ==
    (call.op \in EngineOps /\ enabled /\ entries # <<>>)
        => /\ ProcessTextHook(enabled, entries, call.text)
                  = ApplyCorrections(entries, call.text)
           /\ result = ApplyCorrections(entries, call.text)

\* C20, its case: the live path ran with the flag on over a list with a
\* literal rule, a regex rule that works and a regex rule that raises
\* re.error, and changed the text.
C20_Witness ==
    /\ call.op = "_process_text_hook"
    /\ enabled
    /\ \E i \in 1..Len(entries) : IsLiteralRule(entries[i])
    /\ \E i \in 1..Len(entries) : IsRegexRule(entries[i]) /\ KeepsWorking(entries[i])
    /\ \E i \in 1..Len(entries) : FailsToSubstitute(entries[i])
    /\ ~result.raised
    /\ result.text # call.text
    /\ result = ApplyCorrections(entries, call.text)

\* C19: add_entry checks, appends, sorts and saves in separate steps.  When
\* the calls are serialized (one call inside the store at a time), a rule
\* that a call appended is the only rule of its key, and no sort is
\* disturbed; without the critical section two calls for one key that
\* interleave between check and append leave two rules of that key.
C19_SerializedAddsKeepKeyUnique ==
    call.exclusive =>
        \A t \in Threads :
            /\ result[t] # "ValueError"
            /\ call.frames[t].pc \in {"sort", "sorted", "save"} \/ result[t] = "True"
                   => /\ KeyCount(entries, call.frames[t].new_entry.value,
                                  call.frames[t].new_entry.is_regex) <= 1
                      /\ KeyCount(call.frames[t].saved, call.frames[t].new_entry.value,
                                  call.frames[t].new_entry.is_regex) <= 1

\* C19, its case: without the critical section both calls passed the check,
\* both returned true, and the list and the record hold two rules of the
\* one key.
C19_Witness ==
    /\ ~call.exclusive
    /\ \A t \in Threads : call.frames[t].pc = "done" /\ result[t] = "True"
    /\ call.frames[1].new_entry.value = call.frames[2].new_entry.value
    /\ call.frames[1].new_entry.is_regex = call.frames[2].new_entry.is_regex
    /\ KeyCount(entries, call.frames[1].new_entry.value,
                call.frames[1].new_entry.is_regex) = 2
    /\ configFile = DumpConfig(entries, enabled)

\* activation j comes less than the threshold after activation i
Within(taps, i, j) == taps[j].at - taps[i].at < DoubleTapThreshold

\* activation i opens a pair: it is the first activation, or the one before
\* it closed a double tap, or the one before it lies the threshold or more
\* back
OpensPair(taps, i) ==
    i = 1 \/ taps[i - 1].toggled \/ ~Within(taps, i - 1, i)

\* C21: of two activations less than the threshold apart the second
\* toggles the flag, once, and the single-tap action runs for neither; an
\* activation with no other one less than the threshold after it never has
\* its timer stopped, runs the single-tap action at most once (once when its
\* timer is no longer pending) and toggles nothing; the activation after a
\* double tap is a first tap again.
C21_GestureDisambiguation ==
    \A i \in 1..Len(result) :
        /\ (i > 1 /\ OpensPair(result, i - 1) /\ Within(result, i - 1, i))
               => /\ result[i].toggled /\ ~result[i - 1].toggled
                  /\ result[i].acted = 0 /\ result[i - 1].acted = 0
        /\ (OpensPair(result, i) /\ (i = Len(result) \/ ~Within(result, i, i + 1)))
               => /\ ~result[i].toggled
                  /\ ~result[i].stopped
                  /\ result[i].acted <= 1
                  /\ (call.timer.tap # i \/ ~call.timer.running) =>
                         (result[i].acted = 1 \/ i = Len(result))
        /\ (i > 1 /\ result[i - 1].toggled) => ~result[i].toggled

\* C22: the rule a handler of the settings dialog hands to update_entry or
\* remove_entry for the selected position is the rule whose display string
\* the list box shows at that position, and the handler finds a rule at
\* that position.
C22_HandedRuleIsShownRule ==
    /\ ~result.raised
    /\ result.handed # <<>> => GetDisplayWord(result.handed[1]) = result.selected[1]

====
